---- MODULE Spec2Model ----
(***************************************************************************)
(* markdown2word: the Markdown-AST to .docx converter                      *)
(* (converter.Converter of src/unnamed/part_002).                          *)
(*                                                                         *)
(* A string is a sequence of one-character strings, so that escaping,      *)
(* whitespace collapsing and line splitting are computed character by      *)
(* character.  The document tree is the sequence `nodes` of block nodes in *)
(* depth-first pre-order (node 0 is the Document root); the inline         *)
(* children of a block are the nested value in its field inl.              *)
(***************************************************************************)
EXTENDS Integers, Sequences, FiniteSets, TLC

VARIABLES
    calls,       \* how many times ConvertFile was called on this Converter
    grammar,     \* which family of documents the parser is fed in this run
    faults,      \* whether the environment may fail an I/O or archive call
    opts,        \* Converter.opts
    nodes,       \* the block tree goldmark's parser returns, in pre-order
    phase,       \* position in ConvertFile/Convert
    stack,       \* call stack of the tree walk (processNode / addList)
    paragraphs,  \* Converter.paragraphs
    zip,         \* parts written to the in-memory archive, in order
    zipClosed,   \* zip.Writer.Close has succeeded
    file,        \* contents written to this call's outputPath, one entry per write
    err          \* the error ConvertFile returns (<<>> = nil): message, failed call

vars == <<calls, grammar, faults, opts, nodes, phase, stack, paragraphs,
          zip, zipClosed, file, err>>

----------------------------------------------------------------------------
(* Bounds *)

\* block nodes of a generated document
MaxNodes == 3
\* block nodes of a generated list document
MaxListNodes == 6
\* block nodes of a document converted with failing archive / file calls
MaxDocxNodes == 1
\* heading nodes of a generated document of headings
MaxHeadingNodes == 2
\* inline children of the paragraph of a generated one-paragraph document
MaxInlineLen == 2
\* the largest margin, in whole inches, a conversion is configured with
MaxMargin == 2
\* block nodes of a document converted by a Converter that is used again
MaxCallNodes == 2
\* calls of ConvertFile on one Converter
MaxCalls == 2
\* characters of the content of a generated code block
MaxCodeLen == 4
\* block nodes of a generated document of blockquotes
MaxQuoteNodes == 3

----------------------------------------------------------------------------
(* Strings *)

RECURSIVE Concat(_)
\* strings.Builder: the concatenation of a sequence of strings
Concat(ss) == IF ss = <<>> THEN <<>> ELSE Head(ss) \o Concat(Tail(ss))

\* the characters xml.EscapeText replaces, with their replacement
EscapeChar(c) ==
    CASE c = "\"" -> <<"&", "#", "3", "4", ";">>
      [] c = "'"  -> <<"&", "#", "3", "9", ";">>
      [] c = "&"  -> <<"&", "a", "m", "p", ";">>
      [] c = "<"  -> <<"&", "l", "t", ";">>
      [] c = ">"  -> <<"&", "g", "t", ";">>
      [] c = "\t" -> <<"&", "#", "x", "9", ";">>
      [] c = "\n" -> <<"&", "#", "x", "A", ";">>
      [] c = "\r" -> <<"&", "#", "x", "D", ";">>
      [] OTHER    -> <<c>>

\* escapeXML
escapeXML(s) == Concat([i \in 1..Len(s) |-> EscapeChar(s[i])])

\* characters that may not occur raw in XML character data or attribute values
Reserved == {"<", ">", "&", "\"", "'"}

\* the entity bodies escapeXML produces (between "&" and ";")
Entities == {<<"#", "3", "4">>, <<"#", "3", "9">>, <<"a", "m", "p">>,
             <<"l", "t">>, <<"g", "t">>, <<"#", "x", "9">>,
             <<"#", "x", "A">>, <<"#", "x", "D">>}

\* s[i] = "&" opens one of the entities
EntityAt(s, i) ==
    \E e \in Entities :
        /\ i + Len(e) + 1 <= Len(s)
        /\ SubSeq(s, i + 1, i + Len(e)) = e
        /\ s[i + Len(e) + 1] = ";"

\* s holds reserved characters in escaped form only
IsEscaped(s) ==
    \A i \in 1..Len(s) :
        /\ s[i] \notin Reserved \ {"&"}
        /\ s[i] = "&" => EntityAt(s, i)

IsSpace(c) == c \in {" ", "\t", "\n", "\r"}

RECURSIVE CollapseWS(_)
\* regexp.MustCompile(`\s+`).ReplaceAllString(text, " ")
CollapseWS(s) ==
    IF s = <<>> THEN <<>>
    ELSE IF IsSpace(Head(s))
         THEN IF Len(s) > 1 /\ IsSpace(s[2])
              THEN CollapseWS(Tail(s))
              ELSE <<" ">> \o CollapseWS(Tail(s))
         ELSE <<Head(s)>> \o CollapseWS(Tail(s))

RECURSIVE TrimLeft(_)
TrimLeft(s) == IF s # <<>> /\ IsSpace(Head(s)) THEN TrimLeft(Tail(s)) ELSE s

RECURSIVE TrimRight(_)
TrimRight(s) ==
    IF s # <<>> /\ IsSpace(s[Len(s)])
    THEN TrimRight(SubSeq(s, 1, Len(s) - 1)) ELSE s

\* strings.TrimSpace
TrimSpace(s) == TrimRight(TrimLeft(s))

RECURSIVE TrimRightNL(_)
\* strings.TrimRight(codeText, "\n")
TrimRightNL(s) ==
    IF s # <<>> /\ s[Len(s)] = "\n"
    THEN TrimRightNL(SubSeq(s, 1, Len(s) - 1)) ELSE s

RECURSIVE SplitNL(_, _)
\* strings.Split(codeText, "\n"), cur being the line read so far
SplitNL(s, cur) ==
    IF s = <<>> THEN <<cur>>
    ELSE IF Head(s) = "\n" THEN <<cur>> \o SplitNL(Tail(s), <<>>)
         ELSE SplitNL(Tail(s), Append(cur, Head(s)))

RECURSIVE Digits(_)
\* fmt.Sprintf("%d", n) for n >= 0
Digits(n) ==
    LET d == <<"0", "1", "2", "3", "4", "5", "6", "7", "8", "9">>
    IN  IF n < 10 THEN <<d[n + 1]>> ELSE Digits(n \div 10) \o <<d[(n % 10) + 1]>>

----------------------------------------------------------------------------
(* Options (src/markdown2word/cmd/convert.go sets the defaults) *)

\* --font-size default, in points
DefaultFontSize == 11
\* --code-font-size default, in points
DefaultCodeFontSize == 10

\* int(points * 2): a size in half-points
HalfPoints(points) == points * 2

----------------------------------------------------------------------------
(* Inline nodes: [kind, lvl, txt, dest, ch] *)

InlNode(k, l, t, d, c) == [kind |-> k, lvl |-> l, txt |-> t, dest |-> d, ch |-> c]
\* ast.Text: txt is Segment.Value(source)
Text(t)        == InlNode("Text", 0, t, <<>>, <<>>)
\* ast.Emphasis of Level l
Emphasis(l, c) == InlNode("Emphasis", l, <<>>, <<>>, c)
\* ast.CodeSpan
CodeSpan(c)    == InlNode("CodeSpan", 0, <<>>, <<>>, c)
\* ast.Link with Destination d
Link(d, c)     == InlNode("Link", 0, <<>>, d, c)
\* ast.AutoLink whose URL(source) is d
AutoLink(d)    == InlNode("AutoLink", 0, <<>>, d, <<>>)
\* ast.Image with Destination d, the children being the alt text
Image(d, c)    == InlNode("Image", 0, <<>>, d, c)
\* an inline kind the type switch does not name (Strikethrough, RawHTML, ...)
OtherInl(c)    == InlNode("OtherInline", 0, <<>>, <<>>, c)

RECURSIVE RawText(_)
RECURSIVE RawTextAll(_)
\* what the ast.Walk callback of extractText writes for node n and below
RawText(n) ==
    CASE n.kind \in {"Text", "String"} -> n.txt \o RawTextAll(n.ch)
      [] n.kind = "CodeSpan" ->
            Concat([i \in 1..Len(n.ch) |->
                      IF n.ch[i].kind = "Text" THEN n.ch[i].txt ELSE <<>>])
      [] OTHER -> RawTextAll(n.ch)
\* the same for a sequence of siblings
RawTextAll(ch) == Concat([i \in 1..Len(ch) |-> RawText(ch[i])])

\* extractText of a node whose children are ch
extractText(ch) == TrimSpace(CollapseWS(RawTextAll(ch)))

\* RunStyle
Run(t) == [Text |-> t, Bold |-> FALSE, Italic |-> FALSE, Code |-> FALSE,
           Link |-> FALSE, LinkURL |-> <<>>, Color |-> "", Highlight |-> FALSE]

\* the link color of processInlineNodes
LinkColor == "0000FF"

\* LinkRun with a fault: the destination is shown after the text
LinkRunShowsURL(t, url) ==
    [Run(t \o url) EXCEPT !.Link = TRUE, !.LinkURL = url, !.Color = LinkColor]

\* the run of an ast.Link or ast.AutoLink with text t and destination url
LinkRun(t, url) ==
    [Run(t) EXCEPT !.Link = TRUE, !.LinkURL = url, !.Color = LinkColor]

\* EmphasisRuns with a fault: the level is ignored and both flags are set
EmphasisRunsBoth(t, level) == <<[Run(t) EXCEPT !.Bold = TRUE, !.Italic = TRUE]>>

\* case *ast.Emphasis: the runs appended for an emphasis of Level level whose
\* extracted text is t
EmphasisRuns(t, level) ==
    IF level = 1 THEN <<[Run(t) EXCEPT !.Italic = TRUE]>>
    ELSE IF level = 2 THEN <<[Run(t) EXCEPT !.Bold = TRUE]>>
         ELSE <<>>

\* ImageRuns with a fault: an empty alt text is not replaced
ImageRunsNoFallback(altText) ==
    <<[Run(<<"[">> \o altText \o <<"]">>)
          EXCEPT !.Italic = TRUE, !.Color = "808080"]>>

\* case *ast.Image: the run appended for an image whose extracted text is
\* altText
ImageRuns(altText) ==
    LET shown == IF altText = <<>>
                 THEN <<"I", "m", "a", "g", "e">> ELSE altText
    IN  <<[Run(<<"[">> \o shown \o <<"]">>)
              EXCEPT !.Italic = TRUE, !.Color = "808080"]>>

\* JoinRuns with a fault: the runs of a later child are put in front
JoinRunsReversed(rs) == Concat([i \in 1..Len(rs) |-> rs[Len(rs) + 1 - i]])

\* runs = append(runs, ...) over the loop of processInlineNodes: rs[i] are the
\* runs appended in the round of the i-th child
JoinRuns(rs) == Concat(rs)

RECURSIVE processInlineNodes(_)
\* processInlineNodes of a node whose children are ch
processInlineNodes(ch) ==
    LET one(n) ==
          CASE n.kind \in {"Text", "String"} -> <<Run(n.txt)>>
            [] n.kind = "Emphasis" -> EmphasisRuns(extractText(<<n>>), n.lvl)
            [] n.kind = "CodeSpan" ->
                  <<[Run(extractText(<<n>>)) EXCEPT !.Code = TRUE,
                                                    !.Highlight = TRUE]>>
            [] n.kind = "Link" -> <<LinkRun(extractText(<<n>>), n.dest)>>
            [] n.kind = "AutoLink" -> <<LinkRun(n.dest, n.dest)>>
            [] n.kind = "Image" -> ImageRuns(extractText(<<n>>))
            [] OTHER -> IF n.ch # <<>> THEN processInlineNodes(n.ch) ELSE <<>>
    IN  JoinRuns([i \in 1..Len(ch) |-> one(ch[i])])

\* the font name wrapRuns writes on a code run
CodeRunFont(o) == "Consolas"

\* one <w:r> of wrapRuns: the values written into the run's markup
WrapRun(run, defaultFontSize, o) ==
    [b     |-> run.Bold,
     i     |-> run.Italic,
     color |-> run.Color,
     u     |-> run.Link,
     hl    |-> run.Highlight,
     font  |-> IF run.Code THEN CodeRunFont(o) ELSE "",
     sz    |-> IF run.Code THEN HalfPoints(o.CodeFontSize) ELSE defaultFontSize,
     t     |-> escapeXML(run.Text)]

\* wrapRuns
wrapRuns(runs, defaultFontSize, o) ==
    [k \in 1..Len(runs) |-> WrapRun(runs[k], defaultFontSize, o)]

----------------------------------------------------------------------------
(* Block nodes: nodes[id] = [kind, parent, lvl, txt, inl]; the root is 0 *)

\* kinds whose children are blocks
BlkNode(k, l, t, c) == [kind |-> k, parent |-> 0, lvl |-> l, txt |-> t, inl |-> c]

KindOf(id) == IF id = 0 THEN "Document" ELSE nodes[id].kind

\* node.FirstChild(), NextSibling(), ...: the block children of id, in order
Children(id) ==
    SelectSeq([i \in 1..Len(nodes) |-> i], LAMBDA i : nodes[i].parent = id)

RECURSIVE Ancestors(_)
\* id and the nodes above it, the root included
Ancestors(id) == IF id = 0 THEN {0} ELSE {id} \cup Ancestors(nodes[id].parent)

\* a is b or lies below b
Below(a, b) == b \in Ancestors(a)

----------------------------------------------------------------------------
(* Fragments: the values each handler writes into its <w:p> template *)

\* b: the template's own run, the one holding t, has <w:b/>
Frag(type, src, ind, sz, font, t, runs) ==
    [type |-> type, src |-> src, ind |-> ind, sz |-> sz, font |-> font,
     b |-> FALSE, t |-> t, runs |-> runs]

\* headingSizes with a fault: the sizes of levels 4 and 5 are exchanged
headingSizesExchanged(level) ==
    CASE level = 1 -> 48
      [] level = 2 -> 40
      [] level = 3 -> 32
      [] level = 4 -> 24
      [] level = 5 -> 28
      [] level = 6 -> 22
      [] OTHER -> 0

\* headingSizes
headingSizes(level) ==
    CASE level = 1 -> 48
      [] level = 2 -> 40
      [] level = 3 -> 32
      [] level = 4 -> 28
      [] level = 5 -> 24
      [] level = 6 -> 22
      [] OTHER -> 0

\* ClampLevel with a fault: the level is used as the node gives it
ClampLevelNone(lvl) == lvl

\* if level < 1 { level = 1 }; if level > 6 { level = 6 }
ClampLevel(lvl) == IF lvl < 1 THEN 1 ELSE IF lvl > 6 THEN 6 ELSE lvl

\* addHeading: the fragments it appends for heading id
addHeading(id, o) ==
    LET level == ClampLevel(nodes[id].lvl)
        text  == extractText(nodes[id].inl)
    IN  <<[Frag("heading", id, 0, headingSizes(level), "", escapeXML(text), <<>>)
              EXCEPT !.b = TRUE]>>

\* addParagraph
addParagraph(id, o) ==
    LET runs == processInlineNodes(nodes[id].inl)
    IN  <<Frag("paragraph", id, 0, 0, "", <<>>,
               wrapRuns(runs, HalfPoints(o.FontSize), o))>>

\* the font name addCodeBlock writes on a code line
CodeLineFont(o) == "Consolas"

\* CodeLine with a fault: an empty line is written as it is
CodeLineAsIs(line) == line

\* if line == "" { line = " " }
CodeLine(line) == IF line = <<>> THEN <<" ">> ELSE line

\* addCodeBlock: nodes[id].txt is the concatenation of node.Lines()
addCodeBlock(id, o) ==
    LET codeLines == SplitNL(TrimRightNL(nodes[id].txt), <<>>)
    IN  [k \in 1..Len(codeLines) |->
            Frag("code", id, 360, HalfPoints(o.CodeFontSize), CodeLineFont(o),
                 escapeXML(CodeLine(codeLines[k])), <<>>)]
        \o <<Frag("spacer", id, 0, 0, "", <<>>, <<>>)>>

\* the bullet literal of addListItem, as the source file holds it
\* (the bytes C3 A2 E2 82 AC C2 A2 20)
BulletLiteral == <<"U+00E2", "U+20AC", "U+00A2", " ">>

\* the prefix of a list item
Bullet(isOrdered, itemNum) ==
    IF isOrdered THEN Digits(itemNum) \o <<".", " ">> ELSE BulletLiteral

\* position of the first ast.List among the children of item id (0 = none)
FirstList(id) ==
    LET kids == Children(id)
        at   == {k \in 1..Len(kids) : KindOf(kids[k]) = "List"}
    IN  IF at = {} THEN 0 ELSE CHOOSE k \in at : \A j \in at : k <= j

\* ItemOwnChildren with a fault: the loop reads on after the nested list
ItemOwnChildrenAll(id) == Children(id)

\* the children of item id that addListItem reads before it returns
ItemOwnChildren(id) ==
    LET kids == Children(id)
    IN  IF FirstList(id) = 0 THEN kids ELSE SubSeq(kids, 1, FirstList(id) - 1)

\* contentRuns of addListItem
ItemRuns(id) ==
    LET own == ItemOwnChildren(id)
    IN  Concat([k \in 1..Len(own) |->
                  IF KindOf(own[k]) \in {"TextBlock", "Paragraph"}
                  THEN processInlineNodes(nodes[own[k]].inl) ELSE <<>>])

\* addListItem: the item's own fragment
addListItem(id, level, isOrdered, itemNum, o) ==
    <<Frag("listitem", id, 360 + level * 360, HalfPoints(o.FontSize), "",
           escapeXML(Bullet(isOrdered, itemNum)),
           wrapRuns(ItemRuns(id), HalfPoints(o.FontSize), o))>>

\* QuoteRun with a fault: a color the run has already is kept
QuoteRunKeepsColor(run) ==
    [run EXCEPT !.Italic = TRUE,
                !.Color = IF @ = "" THEN "6A737D" ELSE @]

\* the style addBlockquote forces on a run
QuoteRun(run) == [run EXCEPT !.Italic = TRUE, !.Color = "6A737D"]

\* addBlockquote: one fragment per direct ast.Paragraph child
addBlockquote(id, o) ==
    LET paras == SelectSeq(Children(id), LAMBDA c : KindOf(c) = "Paragraph")
        runs(c) == LET r == processInlineNodes(nodes[c].inl)
                   IN  [k \in 1..Len(r) |-> QuoteRun(r[k])]
    IN  [k \in 1..Len(paras) |->
            Frag("blockquote", paras[k], 720, 0, "", <<>>,
                 wrapRuns(runs(paras[k]), HalfPoints(o.FontSize), o))]

\* addHorizontalRule
addHorizontalRule(id) == <<Frag("rule", id, 0, 0, "", <<>>, <<>>)>>

\* the block kinds processNode's type switch names
Dispatched == {"Heading", "Paragraph", "FencedCodeBlock", "CodeBlock", "List",
               "Blockquote", "ThematicBreak", "HTMLBlock"}

RECURSIVE processNodeInline(_)
\* processNode on a node whose children ch are inline nodes: no case of the
\* type switch names an inline kind, so each child is recursed into
processNodeInline(ch) ==
    Concat([i \in 1..Len(ch) |->
              IF ch[i].kind \in Dispatched THEN <<ch[i]>>
              ELSE processNodeInline(ch[i].ch)])

----------------------------------------------------------------------------
(* The package parts of createDocx *)

\* a part name or a relationship target: directory segments, base name, extension
Path(dir, base, ext) == [dir |-> dir, base |-> base, ext |-> ext]

ContentTypesName == Path(<<>>, "[Content_Types]", "xml")
RelsName         == Path(<<"_rels">>, "", "rels")
DocRelsName      == Path(<<"word", "_rels">>, "document.xml", "rels")
StylesName       == Path(<<"word">>, "styles", "xml")
DocumentName     == Path(<<"word">>, "document", "xml")

UpperLetters == <<"A", "B", "C", "D", "E", "F", "G", "H", "I", "J", "K", "L", "M",
                  "N", "O", "P", "Q", "R", "S", "T", "U", "V", "W", "X", "Y", "Z">>
LowerLetters == <<"a", "b", "c", "d", "e", "f", "g", "h", "i", "j", "k", "l", "m",
                  "n", "o", "p", "q", "r", "s", "t", "u", "v", "w", "x", "y", "z">>

\* unicode.ToLower on an ASCII character
ToLowerChar(c) ==
    IF \E k \in 1..Len(UpperLetters) : UpperLetters[k] = c
    THEN LowerLetters[CHOOSE k \in 1..Len(UpperLetters) : UpperLetters[k] = c]
    ELSE c
\* strings.ToLower
ToLower(s) == [i \in 1..Len(s) |-> ToLowerChar(s[i])]

\* getPageDimensions with a fault: the page size is compared as it is written
getPageDimensionsExact(o) ==
    CASE o.PageSize = <<"a", "4">> -> <<11906, 16838>>
      [] o.PageSize = <<"l", "e", "g", "a", "l">> -> <<12240, 20160>>
      [] OTHER -> <<12240, 15840>>

\* getPageDimensions
getPageDimensions(o) ==
    CASE ToLower(o.PageSize) = <<"a", "4">> -> <<11906, 16838>>
      [] ToLower(o.PageSize) = <<"l", "e", "g", "a", "l">> -> <<12240, 20160>>
      [] OTHER -> <<12240, 15840>>

\* int(inches * 1440)
Twips(inches) == inches * 1440

\* the font name createDocx writes into word/styles.xml
StylesFont(o) == o.FontFamily

\* the Target of _rels/.rels, relative to the package root
RelsTarget == Path(<<"word">>, "document", "xml")

\* DocRelsTarget with a fault: a styles part that is not in the package
DocRelsTargetDangling == Path(<<>>, "style", "xml")

\* the Target of word/_rels/document.xml.rels, relative to word/
DocRelsTarget == Path(<<>>, "styles", "xml")

\* JoinParagraphs with a fault: a body without fragments is given an empty one
JoinParagraphsPadded(paras) ==
    IF paras = <<>> THEN <<[type |-> "spacer", src |-> 0, ind |-> 0, sz |-> 0,
                            font |-> "", b |-> FALSE, t |-> <<>>,
                            runs |-> <<>>]>>
    ELSE paras

\* strings.Join(c.paragraphs, "\n    "): the fragments of the body, in order
JoinParagraphs(paras) == paras

\* DocumentArgs with a fault: the margins in the order they are declared in
DocumentArgsAsDeclared(o, paras) ==
    <<JoinParagraphs(paras), getPageDimensions(o)[1], getPageDimensions(o)[2],
      Twips(o.MarginTop), Twips(o.MarginBottom), Twips(o.MarginLeft),
      Twips(o.MarginRight)>>

\* the arguments fmt.Sprintf fills into the placeholders of word/document.xml,
\* in order: documentContent, pageWidth, pageHeight, marginTop, marginRight,
\* marginBottom, marginLeft
DocumentArgs(o, paras) ==
    <<JoinParagraphs(paras), getPageDimensions(o)[1], getPageDimensions(o)[2],
      Twips(o.MarginTop), Twips(o.MarginRight), Twips(o.MarginBottom),
      Twips(o.MarginLeft)>>

\* the n-th part createDocx adds, n = 1..5: its name and the values it holds;
\* the placeholders of word/document.xml are, in order: the body, w:w, w:h,
\* w:top, w:right, w:bottom, w:left
Part(n, o, paras) ==
    CASE n = 1 -> [name |-> ContentTypesName,
                   defaults  |-> {"rels", "xml"},
                   overrides |-> {DocumentName, StylesName}]
      [] n = 2 -> [name |-> RelsName,
                   targets |-> {RelsTarget}]
      [] n = 3 -> [name |-> DocRelsName,
                   targets |-> {DocRelsTarget}]
      [] n = 4 -> [name |-> StylesName,
                   ascii |-> StylesFont(o), hAnsi |-> StylesFont(o),
                   sz |-> HalfPoints(o.FontSize)]
      [] n = 5 -> LET a == DocumentArgs(o, paras)
                   IN  [name |-> DocumentName,
                        body   |-> a[1],
                        pgW    |-> a[2],
                        pgH    |-> a[3],
                        top    |-> a[4],
                        right  |-> a[5],
                        bottom |-> a[6],
                        left   |-> a[7]]

\* the number of parts createDocx adds
NumParts == 5

----------------------------------------------------------------------------
(* Documents the parser is fed *)

Str_aAmp   == <<"a", "&">>
Str_lt     == <<"<">>
Str_x      == <<"x", " ">>
Str_url    == <<"u", "?", "a", "&", "b">>
Str_url2   == <<"v">>
InlPlain   == <<Text(Str_aAmp)>>
InlLink    == <<Text(Str_x), Link(Str_url, <<Text(Str_lt)>>), OtherInl(<<>>)>>
InlCode    == <<CodeSpan(<<Text(<<"c", ">">>)>>), AutoLink(Str_url)>>
CodeOne    == <<"x", "<", "\n">>
CodeGap    == <<"a", "\n", "\n", "\"", "\n">>

\* inline nodes: texts, emphasis of both levels (*a*, **b **), emphasis nested
\* in emphasis (***a***, *a**b ***), kinds the switch does not name, without
\* children, with children (~~a**b **~~) and nested, a link with an emphasised
\* label and a code span
Inl_a      == Text(<<"a">>)
Inl_b      == Text(<<"b", " ">>)
Inl_em     == Emphasis(1, <<Inl_a>>)
Inl_strong == Emphasis(2, <<Inl_b>>)
InlineAlphabet ==
    {Inl_a, Inl_b, Inl_em, Inl_strong,
     Emphasis(2, <<Emphasis(1, <<Inl_a>>)>>),
     Emphasis(1, <<Inl_a, Inl_strong>>),
     OtherInl(<<>>),
     OtherInl(<<Inl_a, Inl_strong>>),
     OtherInl(<<OtherInl(<<Inl_b>>), Inl_em>>),
     Link(Str_url, <<Inl_em>>),
     CodeSpan(<<Text(<<"c", ">">>)>>),
     Link(Str_url2, <<Inl_em>>),
     Image(Str_url, <<>>),
     Image(Str_url, <<Text(<<" ">>)>>),
     Image(Str_url, <<Inl_b>>)}

\* the content of a code block: lines of "a", empty lines, with and without
\* a line break at the end, up to MaxCodeLen characters
CodeTexts ==
    UNION {[1..n -> {"a", "\n"}] : n \in 0..MaxCodeLen}

\* the inline children of a paragraph in a blockquote: strong emphasis, a
\* link, an image and a code span
InlQuote ==
    <<Inl_strong, Link(Str_url, <<Inl_a>>), Image(Str_url, <<Inl_a>>),
      CodeSpan(<<Text(<<"c", ">">>)>>)>>

\* the inline children of a paragraph: up to MaxInlineLen nodes
InlineSeqs ==
    UNION {[1..n -> InlineAlphabet] : n \in 0..MaxInlineLen}

\* the nodes grammar g allows as a child of a node of kind pk
Templates(g, pk) ==
    CASE g = "blocks" /\ pk = "Document" ->
            {BlkNode("Heading", 2, <<>>, InlPlain),
             BlkNode("Paragraph", 0, <<>>, InlLink),
             BlkNode("FencedCodeBlock", 0, CodeOne, <<>>),
             BlkNode("CodeBlock", 0, CodeGap, <<>>),
             BlkNode("List", 1, <<>>, <<>>),
             BlkNode("Blockquote", 0, <<>>, <<>>),
             BlkNode("ThematicBreak", 0, <<>>, <<>>),
             BlkNode("HTMLBlock", 0, <<"<", "p", ">">>, <<>>),
             BlkNode("Table", 0, <<>>, <<>>),
             BlkNode("Other", 0, <<>>, <<>>)}
      [] g = "blocks" /\ pk = "List" -> {BlkNode("ListItem", 0, <<>>, <<>>)}
      [] g = "blocks" /\ pk = "ListItem" ->
            {BlkNode("TextBlock", 0, <<>>, InlLink)}
      [] g = "blocks" /\ pk = "Blockquote" ->
            {BlkNode("Paragraph", 0, <<>>, InlLink),
             BlkNode("FencedCodeBlock", 0, CodeOne, <<>>)}
      [] g = "blocks" /\ pk = "Table" -> {BlkNode("TableRow", 0, <<>>, <<>>)}
      [] g = "blocks" /\ pk = "TableRow" ->
            {BlkNode("TableCell", 0, <<>>, InlPlain)}
      [] g = "blocks" /\ pk = "Other" ->
            {BlkNode("Paragraph", 0, <<>>, InlPlain),
             BlkNode("Other", 0, <<>>, <<>>)}
      [] g = "lists" /\ pk = "Document" ->
            {BlkNode("List", 0, <<>>, <<>>), BlkNode("List", 1, <<>>, <<>>)}
      [] g = "lists" /\ pk = "List" -> {BlkNode("ListItem", 0, <<>>, <<>>)}
      [] g = "lists" /\ pk = "ListItem" ->
            {BlkNode("TextBlock", 0, <<>>, InlPlain),
             BlkNode("Paragraph", 0, <<>>, <<Text(Str_lt)>>),
             BlkNode("List", 0, <<>>, <<>>), BlkNode("List", 1, <<>>, <<>>)}
      [] g = "docx" /\ pk = "Document" ->
            {BlkNode("Paragraph", 0, <<>>, InlCode),
             BlkNode("FencedCodeBlock", 0, CodeOne, <<>>)}
      [] g = "headings" /\ pk = "Document" ->
            {BlkNode("Heading", l, <<>>, InlPlain) : l \in 0..7}
      [] g = "inline" /\ pk = "Document" ->
            {BlkNode("Paragraph", 0, <<>>, c) : c \in InlineSeqs}
      [] g = "calls" /\ pk = "Document" ->
            {BlkNode("Paragraph", 0, <<>>, InlPlain),
             BlkNode("ThematicBreak", 0, <<>>, <<>>)}
      [] g = "code" /\ pk = "Document" ->
            {BlkNode(k, 0, t, <<>>) :
                k \in {"FencedCodeBlock", "CodeBlock"}, t \in CodeTexts}
      [] g = "quotes" /\ pk = "Document" -> {BlkNode("Blockquote", 0, <<>>, <<>>)}
      [] g = "quotes" /\ pk = "Blockquote" ->
            {BlkNode("Paragraph", 0, <<>>, InlQuote),
             BlkNode("Paragraph", 0, <<>>, InlPlain),
             BlkNode("FencedCodeBlock", 0, CodeOne, <<>>),
             BlkNode("List", 0, <<>>, <<>>),
             BlkNode("Blockquote", 0, <<>>, <<>>)}
      [] g = "quotes" /\ pk = "List" -> {BlkNode("ListItem", 0, <<>>, <<>>)}
      [] g = "quotes" /\ pk = "ListItem" ->
            {BlkNode("TextBlock", 0, <<>>, InlPlain)}
      [] OTHER -> {}

\* how many block nodes a document of grammar g may have
MaxNodesOf(g) ==
    CASE g = "blocks" -> MaxNodes
      [] g = "lists" -> MaxListNodes
      [] g = "headings" -> MaxHeadingNodes
      [] g = "inline" -> 1
      [] g = "page" -> 0
      [] g = "calls" -> MaxCallNodes
      [] g = "code" -> 1
      [] g = "quotes" -> MaxQuoteNodes
      [] OTHER -> MaxDocxNodes

\* how many times the caller calls ConvertFile on the Converter
MaxCallsOf(g) == IF g = "calls" THEN MaxCalls ELSE 1

----------------------------------------------------------------------------
(* State machine *)

\* the flag defaults of cmd/convert.go (margins in whole inches)
DefaultOpts ==
    [FontFamily |-> <<"C", "a", "l", "i", "b", "r", "i">>,
     FontSize |-> DefaultFontSize,
     CodeFontFamily |-> "Consolas",
     CodeFontSize |-> DefaultCodeFontSize,
     MarginTop |-> 1, MarginBottom |-> 1, MarginLeft |-> 1, MarginRight |-> 1,
     PageSize |-> <<"L", "e", "t", "t", "e", "r">>]

\* the configurations a conversion is run with
OptsChoices ==
    {DefaultOpts,
     [DefaultOpts EXCEPT !.FontFamily = <<"R", "&", "D">>],
     [DefaultOpts EXCEPT !.CodeFontFamily = "Courier New"],
     [DefaultOpts EXCEPT !.PageSize = <<"A", "4">>, !.MarginTop = 2]}

\* the upper-case form of an ASCII character
ToUpperChar(c) ==
    IF \E k \in 1..Len(LowerLetters) : LowerLetters[k] = c
    THEN UpperLetters[CHOOSE k \in 1..Len(LowerLetters) : LowerLetters[k] = c]
    ELSE c

RECURSIVE Cased(_)
\* the lower-case string s written in every mix of letter cases
Cased(s) ==
    IF s = <<>> THEN {<<>>}
    ELSE {<<c>> \o r : c \in {Head(s), ToUpperChar(Head(s))}, r \in Cased(Tail(s))}

Str_a4     == <<"a", "4">>
Str_legal  == <<"l", "e", "g", "a", "l">>
Str_letter == <<"l", "e", "t", "t", "e", "r">>

\* values of --page-size: the three names in every letter case, the empty
\* string, and names that are not page sizes
PageSizes ==
    Cased(Str_a4) \cup Cased(Str_legal) \cup Cased(Str_letter)
    \cup {<<>>, <<"A", "3">>, <<"a", "4", " ">>, <<"a", "4", "4">>, <<"4", "a">>,
          <<"L", "e", "g", "a">>, <<"T", "a", "b", "l", "o", "i", "d">>}

\* the four margins of a configuration, in whole inches
Margins == [{"Top", "Bottom", "Left", "Right"} -> 0..MaxMargin]

\* the configurations of page size and margins a conversion is run with
PageOpts ==
    {[DefaultOpts EXCEPT !.PageSize = ps] : ps \in PageSizes}
    \cup {[DefaultOpts EXCEPT !.PageSize = ps,
                             !.MarginTop = m["Top"], !.MarginBottom = m["Bottom"],
                             !.MarginLeft = m["Left"], !.MarginRight = m["Right"]] :
            ps \in {<<"A", "4">>, <<"L", "e", "t", "t", "e", "r">>}, m \in Margins}

\* New(opts), before ConvertFile is called
InitWith(g, f, o) ==
    /\ calls = 1
    /\ grammar = g
    /\ faults = f
    /\ opts = o
    /\ nodes = <<>>
    /\ phase = "read"
    /\ stack = <<>>
    /\ paragraphs = <<>>
    /\ zip = <<>>
    /\ zipClosed = FALSE
    /\ file = <<>>
    /\ err = <<>>

\* every block kind, default options, no failing call
InitBlocks == InitWith("blocks", FALSE, DefaultOpts)
\* deep lists, default options, no failing call
InitLists == InitWith("lists", FALSE, DefaultOpts)
\* short documents, every configuration, calls that may fail
InitDocx == \E o \in OptsChoices : InitWith("docx", TRUE, o)

\* headings of the levels the parser gives (1..6) and of levels only a tree
\* changed after parsing holds (0, 7), two body font sizes, no failing call
InitHeadings ==
    \E fs \in {DefaultFontSize, 14} :
        InitWith("headings", FALSE, [DefaultOpts EXCEPT !.FontSize = fs])
\* one paragraph with inline children, default options, no failing call
InitInline == InitWith("inline", FALSE, DefaultOpts)
\* zero bytes of input, every page size and margin, no failing call
InitPage == \E o \in PageOpts : InitWith("page", FALSE, o)
\* short documents converted one after the other by the same Converter
InitCalls == InitWith("calls", FALSE, DefaultOpts)

\* one code block, default options, no failing call
InitCode == InitWith("code", FALSE, DefaultOpts)
\* blockquotes and what they hold, default options, no failing call
InitQuotes == InitWith("quotes", FALSE, DefaultOpts)

Init ==
    \/ InitBlocks \/ InitLists \/ InitDocx
    \/ InitHeadings \/ InitInline \/ InitPage \/ InitCalls
    \/ InitCode \/ InitQuotes

\* ConvertFile: os.ReadFile succeeds
ReadFile ==
    /\ phase = "read"
    /\ phase' = "parse"
    /\ UNCHANGED <<calls, grammar, faults, opts, nodes, stack, paragraphs,
                   zip, zipClosed, file, err>>

\* ConvertFile: os.ReadFile fails
ReadFileFails ==
    /\ phase = "read"
    /\ faults
    /\ phase' = "done"
    /\ err' = <<"failed to read input file", "ReadFile">>
    /\ UNCHANGED <<calls, grammar, faults, opts, nodes, stack, paragraphs,
                   zip, zipClosed, file>>

\* the nodes a next node may hang under: the last node and its ancestors
RightPath == Ancestors(Len(nodes))

\* md.Parser().Parse: the parser delivers one more block node
Parse ==
    /\ phase = "parse"
    /\ Len(nodes) < MaxNodesOf(grammar)
    /\ \E p \in RightPath :
         \E n \in Templates(grammar, KindOf(p)) :
            nodes' = Append(nodes, [n EXCEPT !.parent = p])
    /\ UNCHANGED <<calls, grammar, faults, opts, phase, stack, paragraphs,
                   zip, zipClosed, file, err>>

\* a frame of the walk: function fn is at child number idx of node
Frame(fn, node, level, isOrdered) ==
    [fn |-> fn, node |-> node, idx |-> 1, level |-> level,
     isOrdered |-> isOrdered, itemNum |-> 1]

\* ResetParagraphs with a fault: the slice of the Converter is kept
ResetParagraphsKept(p) == p

\* c.paragraphs = []string{}
ResetParagraphs(p) == <<>>

\* Convert: the tree is complete; c.paragraphs is reset and the walk begins
Convert ==
    /\ phase = "parse"
    /\ phase' = "walk"
    /\ paragraphs' = ResetParagraphs(paragraphs)
    /\ stack' = <<Frame("processNode", 0, 0, FALSE)>>
    /\ UNCHANGED <<calls, grammar, faults, opts, nodes, zip, zipClosed, file, err>>

Top      == stack[Len(stack)]
Kids     == Children(Top.node)
HasChild == Top.idx <= Len(Kids)
Cur      == Kids[Top.idx]
\* the loop's child = child.NextSibling()
Advanced == [stack EXCEPT ![Len(stack)].idx = @ + 1]

InProcessNode == phase = "walk" /\ stack # <<>> /\ Top.fn = "processNode"
InAddList     == phase = "walk" /\ stack # <<>> /\ Top.fn = "addList"

\* processNode's type switch is at a child of one of these kinds
AtKind(kinds) == InProcessNode /\ HasChild /\ KindOf(Cur) \in kinds
\* processNode's type switch is at a child of a kind it does not name
AtUnnamed     == InProcessNode /\ HasChild /\ KindOf(Cur) \notin Dispatched
\* addList's loop is at a child
AtListChild   == InAddList /\ HasChild
\* the loop of the function on top of the stack is over
AtEnd         == phase = "walk" /\ stack # <<>> /\ ~HasChild

\* Emit with a fault: the fragments are put in front of the sequence
EmitInFront(frags) ==
    /\ paragraphs' = frags \o paragraphs
    /\ stack' = Advanced
    /\ UNCHANGED <<calls, grammar, faults, opts, nodes, phase, zip, zipClosed, file, err>>

\* a handler that appends frags and returns to the loop of processNode
Emit(frags) ==
    /\ paragraphs' = paragraphs \o frags
    /\ stack' = Advanced
    /\ UNCHANGED <<calls, grammar, faults, opts, nodes, phase, zip, zipClosed, file, err>>

processNode_Heading ==
    /\ AtKind({"Heading"})
    /\ Emit(addHeading(Cur, opts))

processNode_Paragraph ==
    /\ AtKind({"Paragraph"})
    /\ Emit(addParagraph(Cur, opts))

processNode_CodeBlock ==
    /\ AtKind({"FencedCodeBlock", "CodeBlock"})
    /\ Emit(addCodeBlock(Cur, opts))

processNode_Blockquote ==
    /\ AtKind({"Blockquote"})
    /\ Emit(addBlockquote(Cur, opts))

processNode_ThematicBreak ==
    /\ AtKind({"ThematicBreak"})
    /\ Emit(addHorizontalRule(Cur))

\* case *ast.HTMLBlock: skipped
processNode_HTMLBlock ==
    /\ AtKind({"HTMLBlock"})
    /\ Emit(<<>>)

\* case *ast.List: c.addList(n, source, 0)
processNode_List ==
    /\ AtKind({"List"})
    /\ stack' = Append(Advanced, Frame("addList", Cur, 0, nodes[Cur].lvl = 1))
    /\ UNCHANGED <<calls, grammar, faults, opts, nodes, phase, paragraphs,
                   zip, zipClosed, file, err>>

\* DefaultCase with a fault: an unnamed kind makes the walk give up
DefaultCaseAbort(st, child) == <<>>

\* DefaultCase with a fault: an unnamed kind is skipped with all below it
DefaultCaseSkip(st, child) == st

\* what processNode does with a child the type switch does not name
DefaultCase(st, child) == Append(st, Frame("processNode", child, 0, FALSE))

\* default: c.processNode(child, source)
processNode_Default ==
    /\ AtUnnamed
    /\ stack' = DefaultCase(Advanced, Cur)
    /\ paragraphs' = paragraphs \o processNodeInline(nodes[Cur].inl)
    /\ UNCHANGED <<calls, grammar, faults, opts, nodes, phase, zip, zipClosed, file, err>>

\* the level addListItem passes to the addList of a nested list
NestedLevel(level) == level + 1

\* NextItemNum with a fault: the counter is not advanced
NextItemNumSame(itemNum) == itemNum

\* the number addList passes for the item after the one numbered itemNum
NextItemNum(itemNum) == itemNum + 1

\* AfterItem with a fault: the nested list is translated only after the rest of
\* the list it is nested in
AfterItemDeferred(st, item) ==
    LET f    == st[Len(st)]
        next == [st EXCEPT ![Len(st)].idx = @ + 1,
                           ![Len(st)].itemNum = @ + 1]
        k    == FirstList(item)
        sub  == Children(item)[k]
    IN  IF k = 0 THEN next
        ELSE SubSeq(next, 1, Len(next) - 1)
             \o <<Frame("addList", sub, f.level + 1, nodes[sub].lvl = 1),
                  next[Len(next)]>>

\* the frames left on the stack by one round of addList's loop on a list item:
\* the loop moves on, and the item's first nested list, if any, runs before it
AfterItem(st, item) ==
    LET f    == st[Len(st)]
        next == [st EXCEPT ![Len(st)].idx = @ + 1,
                           ![Len(st)].itemNum = NextItemNum(@)]
        k    == FirstList(item)
        sub  == Children(item)[k]
    IN  IF k = 0 THEN next
        ELSE Append(next, Frame("addList", sub, NestedLevel(f.level),
                                nodes[sub].lvl = 1))

\* one round of addList's loop: addListItem on a list item, nothing otherwise
addList ==
    /\ AtListChild
    /\ IF KindOf(Cur) = "ListItem"
       THEN /\ paragraphs' = paragraphs \o
                   addListItem(Cur, Top.level, Top.isOrdered, Top.itemNum, opts)
            /\ stack' = AfterItem(stack, Cur)
       ELSE /\ paragraphs' = paragraphs
            /\ stack' = Advanced
    /\ UNCHANGED <<calls, grammar, faults, opts, nodes, phase, zip, zipClosed, file, err>>

\* processNode or addList has no child left and returns; the return of the
\* outermost processNode takes Convert on to createDocx
Return ==
    /\ AtEnd
    /\ stack' = SubSeq(stack, 1, Len(stack) - 1)
    /\ phase' = IF Len(stack) = 1 THEN "docx" ELSE "walk"
    /\ UNCHANGED <<calls, grammar, faults, opts, nodes, paragraphs, zip, zipClosed, file, err>>

\* createDocx: the next addFileToZip succeeds
addFileToZip ==
    /\ phase = "docx" /\ Len(zip) < NumParts
    /\ zip' = Append(zip, Part(Len(zip) + 1, opts, paragraphs))
    /\ UNCHANGED <<calls, grammar, faults, opts, nodes, phase, stack, paragraphs,
                   zipClosed, file, err>>

\* createDocx returns the error of call, which Convert wraps
Failed(call) ==
    /\ phase' = "done"
    /\ err' = <<"failed to create document", call>>
    /\ UNCHANGED <<calls, grammar, faults, opts, nodes, stack, paragraphs, zip, zipClosed>>

\* createDocx: the next addFileToZip fails
addFileToZipFails ==
    /\ phase = "docx" /\ Len(zip) < NumParts /\ faults
    /\ Failed("addFileToZip") /\ file' = file

\* createDocx: w.Close() succeeds
Close ==
    /\ phase = "docx" /\ Len(zip) = NumParts /\ ~zipClosed
    /\ zipClosed' = TRUE
    /\ UNCHANGED <<calls, grammar, faults, opts, nodes, phase, stack, paragraphs,
                   zip, file, err>>

\* createDocx: w.Close() fails
CloseFails ==
    /\ phase = "docx" /\ Len(zip) = NumParts /\ ~zipClosed /\ faults
    /\ Failed("Close") /\ file' = file

\* MayWrite with a fault: the file is written without waiting for Close
MayWriteEarly == phase = "docx" /\ Len(zip) = NumParts

\* whether createDocx may write the output file
MayWrite == phase = "docx" /\ zipClosed

\* createDocx: os.WriteFile(outputPath, buf.Bytes(), 0644) succeeds
WriteFile ==
    /\ MayWrite
    /\ file' = Append(file, zip)
    /\ phase' = "done"
    /\ UNCHANGED <<calls, grammar, faults, opts, nodes, stack, paragraphs, zip,
                   zipClosed, err>>

\* createDocx: os.WriteFile fails, having written nothing or a part of the bytes
WriteFileFails ==
    /\ MayWrite /\ faults
    /\ Failed("WriteFile")
    /\ file' \in {file, Append(file, <<>>)}

\* the caller calls ConvertFile again on the same Converter, with another
\* input and output path: c.opts and c.paragraphs are as the last call left
\* them, everything else belongs to the new call
ConvertFileAgain ==
    /\ phase = "done"
    /\ calls < MaxCallsOf(grammar)
    /\ calls' = calls + 1
    /\ phase' = "read"
    /\ nodes' = <<>>
    /\ stack' = <<>>
    /\ zip' = <<>>
    /\ zipClosed' = FALSE
    /\ file' = <<>>
    /\ err' = <<>>
    /\ UNCHANGED <<grammar, faults, opts, paragraphs>>

Walk ==
    \/ processNode_Heading \/ processNode_Paragraph \/ processNode_CodeBlock
    \/ processNode_Blockquote \/ processNode_ThematicBreak
    \/ processNode_HTMLBlock \/ processNode_List \/ processNode_Default
    \/ addList \/ Return

Next ==
    \/ ReadFile \/ ReadFileFails \/ Parse \/ Convert \/ Walk
    \/ addFileToZip \/ addFileToZipFails \/ Close \/ CloseFails
    \/ WriteFile \/ WriteFileFails \/ ConvertFileAgain

Spec == Init /\ [][Next]_vars

----------------------------------------------------------------------------
(* Claims *)

\* the tree walk of Convert has returned
WalkDone ==
    /\ stack = <<>>
    /\ phase \in {"docx", "done"}
    /\ err = <<>> \/ err[1] = "failed to create document"

\* the part a relationship target of the part named rels resolves to: the
\* target is relative to the directory of the part the relationships belong to
Resolve(rels, target) ==
    Path(SubSeq(rels.dir, 1, Len(rels.dir) - 1) \o target.dir,
         target.base, target.ext)

FragEscaped(f) ==
    /\ IsEscaped(f.t)
    /\ \A k \in 1..Len(f.runs) : IsEscaped(f.runs[k].t)

\* C1: every string createDocx places into a part is XML-escaped: the text of
\* every fragment and run of word/document.xml, and the font family written
\* into word/styles.xml
C1_AllInsertedStringsEscaped ==
    \A n \in 1..Len(zip) :
        /\ zip[n].name = StylesName =>
              IsEscaped(zip[n].ascii) /\ IsEscaped(zip[n].hAnsi)
        /\ zip[n].name = DocumentName =>
              \A i \in 1..Len(zip[n].body) : FragEscaped(zip[n].body[i])

\* C2: the fragment sequence is in source order (node ids are pre-order
\* numbers); a list item's own fragment precedes every fragment from below the
\* item, and all of these precede the fragment of the item's next sibling
C2_FragmentsInSourceOrder ==
    LET P == paragraphs
        N == 1..Len(paragraphs)
    IN  /\ \A i, j \in N : i < j => P[i].src <= P[j].src
        /\ \A i, j \in N :
              (P[i].type = "listitem" /\ P[j].src # P[i].src
                 /\ Below(P[j].src, P[i].src)) => i < j
        /\ \A i, j \in N :
              (P[i].type = "listitem" /\ P[j].type = "listitem"
                 /\ nodes[P[i].src].parent = nodes[P[j].src].parent
                 /\ P[i].src < P[j].src)
              => \A m \in N : Below(P[m].src, P[i].src) => m < j

\* C2 witness: an item's fragment, then a fragment of its nested list, then the
\* fragment of the item's next sibling
C2_Witness ==
    /\ WalkDone
    /\ \E i, j, m \in 1..Len(paragraphs) :
          /\ i < j /\ j < m
          /\ paragraphs[i].type = "listitem"
          /\ paragraphs[j].src # paragraphs[i].src
          /\ Below(paragraphs[j].src, paragraphs[i].src)
          /\ paragraphs[m].type = "listitem"
          /\ nodes[paragraphs[m].src].parent = nodes[paragraphs[i].src].parent

\* C3: after a successful createDocx the archive holds exactly the five parts,
\* each once; every relationship target and every Override names a part that
\* is present, and every part has a content type
C3_PackageConsistent ==
    (phase = "done" /\ err = <<>>) =>
        LET names == {zip[n].name : n \in 1..Len(zip)}
            ct    == zip[1]
        IN  /\ file = <<zip>>
            /\ Len(zip) = 5
            /\ names = {ContentTypesName, RelsName, DocRelsName, StylesName,
                        DocumentName}
            /\ \A n \in 1..Len(zip) :
                  zip[n].name.ext = "rels" =>
                     \A t \in zip[n].targets : Resolve(zip[n].name, t) \in names
            /\ ct.name = ContentTypesName
            /\ ct.overrides \subseteq names
            /\ \A nm \in names : nm \in ct.overrides \/ nm.ext \in ct.defaults

\* C3 witness: a successful conversion of the empty document
C3_Witness == phase = "done" /\ err = <<>> /\ nodes = <<>> /\ Len(zip) = 5

RECURSIVE ReachedByProcessNode(_)
\* processNode's loop meets node id: it is a child of the root or of a node
\* the default case recursed into
ReachedByProcessNode(id) ==
    \/ nodes[id].parent = 0
    \/ /\ KindOf(nodes[id].parent) \notin Dispatched
       /\ ReachedByProcessNode(nodes[id].parent)

\* the kinds of the dispatch table: each has a handler that emits fragments
Supported == {"Heading", "Paragraph", "FencedCodeBlock", "CodeBlock", "List",
              "Blockquote", "ThematicBreak"}

\* a block that processNode meets and whose kind is not in the dispatch table
Unmatched(id) == ReachedByProcessNode(id) /\ KindOf(id) \notin Supported

\* a fragment was derived from node id
HasFragment(id) == \E i \in 1..Len(paragraphs) : paragraphs[i].src = id

C5_WriteOnlyLast ==
    /\ Len(file) <= 1
    /\ file # <<>> =>
          /\ phase = "done"
          /\ Len(zip) = 5 /\ zipClosed
          /\ err = <<>> => file = <<zip>>
    /\ err # <<>> =>
          /\ phase = "done"
          /\ err[2] \in {"ReadFile", "addFileToZip", "Close"} => file = <<>>
    /\ (phase = "done" /\ err = <<>>) => Len(file) = 1

\* C5 witness: Close failed after all five parts were added
C5_Witness ==
    /\ phase = "done" /\ err # <<>> /\ err[2] = "Close"
    /\ Len(zip) = 5 /\ file = <<>>

\* some step of the walk can be taken: the guards of the actions of Walk
WalkEnabled ==
    \/ AtKind({"Heading"}) \/ AtKind({"Paragraph"})
    \/ AtKind({"FencedCodeBlock", "CodeBlock"}) \/ AtKind({"Blockquote"})
    \/ AtKind({"ThematicBreak"}) \/ AtKind({"HTMLBlock"}) \/ AtKind({"List"})
    \/ AtUnnamed \/ AtListChild \/ AtEnd

\* the position of node id among the children of its parent
ChildIndex(id) ==
    Cardinality({d \in 1..id : nodes[d].parent = nodes[id].parent})

\* the children the loops on the stack have not reached yet
Unreached ==
    {c \in 1..Len(nodes) :
        \E n \in 1..Len(stack) :
            nodes[c].parent = stack[n].node /\ ChildIndex(c) >= stack[n].idx}

\* the work the walk has left: the frames to return from, and twice the
\* nodes at or below a child that a loop has not reached yet
WalkRank ==
    Len(stack)
    + 2 * Cardinality({d \in 1..Len(nodes) : \E c \in Unreached : Below(d, c)})

\* C6: whatever kinds the tree holds, the walk raises no error and ends: in
\* every state of the walk a step can be taken, every step of the walk either
\* lowers the work left (a natural number) or is the return of the outermost
\* processNode, after which Convert is at createDocx with no error
C6_WalkCompletes ==
    [][/\ phase' = "walk" => (WalkEnabled' /\ err' = <<>>)
       /\ phase = "walk" =>
             \/ phase' = "walk" /\ WalkRank' < WalkRank
             \/ phase' = "docx" /\ stack' = <<>> /\ err' = <<>>]_vars

\* C6 witness: the walk of a tree with a block kind and an inline kind outside
\* the dispatch tables has ended
C6_Witness ==
    /\ phase = "docx" /\ stack = <<>> /\ err = <<>>
    /\ \E id \in 1..Len(nodes) : KindOf(id) \in {"Table", "Other", "HTMLBlock"}
    /\ \E id \in 1..Len(nodes) :
          \E k \in 1..Len(nodes[id].inl) : nodes[id].inl[k].kind = "OtherInline"

\* the number of list items among the children of id's list up to id
ItemOrdinal(id) ==
    Cardinality({c \in 1..id : /\ nodes[c].parent = nodes[id].parent
                               /\ KindOf(c) = "ListItem"})

\* the prefixes of the list item fragments, in order
ItemPrefixes ==
    LET items == SelectSeq(paragraphs, LAMBDA f : f.type = "listitem")
    IN  [k \in 1..Len(items) |-> items[k].t]

\* C7: in an ordered list the k-th item has the prefix "k. ", whatever the
\* nesting and whatever the counter of the list around it
C7_OrderedNumbering ==
    \A i \in 1..Len(paragraphs) :
        LET f == paragraphs[i]
        IN  (f.type = "listitem" /\ nodes[nodes[f.src].parent].lvl = 1)
            => f.t = Digits(ItemOrdinal(f.src)) \o <<".", " ">>

\* C7 witness: items a, b with a nested ordered item, c: 1., 2., 1., 3.
C7_Witness ==
    /\ WalkDone
    /\ ItemPrefixes = << <<"1", ".", " ">>, <<"2", ".", " ">>,
                         <<"1", ".", " ">>, <<"3", ".", " ">> >>
    /\ \E i \in 1..Len(paragraphs) : paragraphs[i].ind = 720

\* C8: a table contributes fragments carrying the text of its cells
C8_TableTextEmitted ==
    WalkDone =>
        \A id \in 1..Len(nodes) :
            (KindOf(id) = "TableCell" /\ extractText(nodes[id].inl) # <<>>)
            => \E i \in 1..Len(paragraphs) : Below(id, paragraphs[i].src)

\* C9: code lines and code-span runs carry the configured code font family
C9_CodeFontConfigured ==
    \A i \in 1..Len(paragraphs) :
        /\ paragraphs[i].type = "code" =>
              paragraphs[i].font = opts.CodeFontFamily
        /\ \A k \in 1..Len(paragraphs[i].runs) :
              paragraphs[i].runs[k].hl =>
                 paragraphs[i].runs[k].font = opts.CodeFontFamily

\* C10: every run of a link or autolink is blue and underlined, wherever it is
C10_LinksBlueUnderlined ==
    \A i \in 1..Len(paragraphs) :
        \A k \in 1..Len(paragraphs[i].runs) :
            paragraphs[i].runs[k].u => paragraphs[i].runs[k].color = "0000FF"

\* the document part of the archive, once createDocx has added it
HasDocument == Len(zip) = NumParts /\ zip[NumParts].name = DocumentName
Document    == zip[NumParts]

CasedA4    == Cased(Str_a4)
CasedLegal == Cased(Str_legal)

\* C11: getPageDimensions gives a result for every page size string: 11906 x
\* 16838 for "a4" in any letter case, 12240 x 20160 for "legal" in any letter
\* case, and the Letter pair 12240 x 15840 for every other string
C11_PageDimensions ==
    HasDocument =>
        LET dims == <<Document.pgW, Document.pgH>>
        IN  /\ opts.PageSize \in CasedA4 => dims = <<11906, 16838>>
            /\ opts.PageSize \in CasedLegal => dims = <<12240, 20160>>
            /\ opts.PageSize \notin CasedA4 \cup CasedLegal
                  => dims = <<12240, 15840>>

\* C11 witness: "lEgAL" has given the Legal pair
C11_Witness ==
    /\ HasDocument
    /\ opts.PageSize = <<"l", "E", "g", "A", "L">>
    /\ Document.pgW = 12240 /\ Document.pgH = 20160

\* C12: with margins in whole inches, w:top, w:right, w:bottom and w:left of
\* the section descriptor hold 1440 times the top, right, bottom and left
\* margin, each its own
C12_MarginsInTwips ==
    HasDocument =>
        /\ Document.top = 1440 * opts.MarginTop
        /\ Document.right = 1440 * opts.MarginRight
        /\ Document.bottom = 1440 * opts.MarginBottom
        /\ Document.left = 1440 * opts.MarginLeft
        /\ ({opts.MarginTop, opts.MarginRight, opts.MarginBottom,
             opts.MarginLeft} = {1})
           => {Document.top, Document.right, Document.bottom,
               Document.left} = {1440}

\* C12 witness: a descriptor written for margins that differ from each other
C12_Witness ==
    /\ HasDocument
    /\ opts.MarginTop = 2 /\ opts.MarginRight = 0
    /\ opts.MarginBottom = 1 /\ opts.MarginLeft = 2
    /\ Document.right = 0 /\ Document.bottom = 1440

\* C13: a conversion of zero bytes (a Document without children) appends no
\* fragment; unless a call of the environment fails it returns no error, and
\* then the file holds the five parts, the body of word/document.xml holding
\* nothing but the descriptor of page and margins
C13_EmptyInputSucceeds ==
    (nodes = <<>> /\ phase \in {"walk", "docx", "done"}) =>
        /\ paragraphs = <<>>
        /\ (phase = "done" /\ ~faults) => err = <<>>
        /\ (phase = "done" /\ err = <<>>) =>
              /\ file = <<zip>>
              /\ {zip[n].name : n \in 1..Len(zip)} =
                    {ContentTypesName, RelsName, DocRelsName, StylesName,
                     DocumentName}
              /\ HasDocument
              /\ Document.body = <<>>
              /\ Document.pgW > 0 /\ Document.pgH > 0

\* C13 witness: zero bytes were converted and the file was written
C13_Witness ==
    /\ grammar = "page" /\ nodes = <<>>
    /\ phase = "done" /\ err = <<>>
    /\ Len(file) = 1 /\ Len(file[1]) = NumParts
    /\ file[1][NumParts].body = <<>>

RECURSIVE ProcessNodeFrags(_)
RECURSIVE AddListFrags(_, _)
\* the fragments of the block children of node id, got by applying the
\* handlers to the tree alone: what a Converter that has converted nothing
\* before appends on processNode(id)
ProcessNodeFrags(id) ==
    LET kids == Children(id)
        one(c) ==
          CASE KindOf(c) = "Heading" -> addHeading(c, opts)
            [] KindOf(c) = "Paragraph" -> addParagraph(c, opts)
            [] KindOf(c) \in {"FencedCodeBlock", "CodeBlock"} -> addCodeBlock(c, opts)
            [] KindOf(c) = "List" -> AddListFrags(c, 0)
            [] KindOf(c) = "Blockquote" -> addBlockquote(c, opts)
            [] KindOf(c) = "ThematicBreak" -> addHorizontalRule(c)
            [] KindOf(c) = "HTMLBlock" -> <<>>
            [] OTHER -> ProcessNodeFrags(c)
    IN  Concat([k \in 1..Len(kids) |-> one(kids[k])])
\* the same for addList(id, level)
AddListFrags(id, level) ==
    LET kids == Children(id)
        one(c) ==
          IF KindOf(c) # "ListItem" THEN <<>>
          ELSE addListItem(c, level, nodes[id].lvl = 1, ItemOrdinal(c), opts)
               \o (IF FirstList(c) = 0 THEN <<>>
                   ELSE AddListFrags(Children(c)[FirstList(c)], level + 1))
    IN  Concat([k \in 1..Len(kids) |-> one(kids[k])])

\* C14: whatever the Converter has converted before, the fragments a call
\* has appended when its walk is over, and the body of the document part it
\* writes, are the fragments of the tree of this call and nothing else
C14_CallsIndependent ==
    /\ WalkDone => paragraphs = ProcessNodeFrags(0)
    /\ HasDocument => Document.body = ProcessNodeFrags(0)

\* C14 witness: a second call on the same Converter has written a document
\* with one fragment
C14_Witness ==
    /\ calls = 2 /\ phase = "done" /\ err = <<>>
    /\ Len(nodes) = 1
    /\ HasDocument /\ Len(Document.body) = 1

\* C15: the heading size does not grow with the level: headingSizes[i] >=
\* headingSizes[j] for 1 <= i < j <= 6, level 1 being the largest, in the
\* table and in the heading fragments of a document
C15_HeadingSizesNonIncreasing ==
    /\ \A i, j \in 1..6 : i < j => headingSizes(i) >= headingSizes(j)
    /\ \A i \in 1..6 : headingSizes(1) >= headingSizes(i)
    /\ \A p, q \in 1..Len(paragraphs) :
          (/\ paragraphs[p].type = "heading" /\ paragraphs[q].type = "heading"
           /\ nodes[paragraphs[p].src].lvl \in 1..6
           /\ nodes[paragraphs[q].src].lvl \in 1..6
           /\ nodes[paragraphs[p].src].lvl < nodes[paragraphs[q].src].lvl)
          => paragraphs[p].sz >= paragraphs[q].sz

\* C15 witness: a level 4 and a level 5 heading have their fragments
C15_Witness ==
    /\ WalkDone
    /\ \E p, q \in 1..Len(paragraphs) :
          /\ paragraphs[p].type = "heading" /\ paragraphs[q].type = "heading"
          /\ nodes[paragraphs[p].src].lvl = 4
          /\ nodes[paragraphs[q].src].lvl = 5
          /\ paragraphs[p].sz > paragraphs[q].sz

\* the indexes of the fragments derived from node id or from below it
FragsBelow(id) ==
    {j \in 1..Len(paragraphs) : Below(paragraphs[j].src, id)}

\* the runs of the text blocks and paragraphs among the first n children of id
RunsOfFirst(id, n) ==
    LET kids == SubSeq(Children(id), 1, n)
    IN  Concat([k \in 1..Len(kids) |->
                  IF KindOf(kids[k]) \in {"TextBlock", "Paragraph"}
                  THEN processInlineNodes(nodes[kids[k]].inl) ELSE <<>>])

\* C16: for a list item with a nested list among its children, the item's own
\* fragment holds the runs of the text blocks and paragraphs before the first
\* nested list only; the fragments of that list follow it at once, its items
\* one level deeper; no later child of the item yields a fragment
C16_NestedListEndsItem ==
    WalkDone =>
        \A i \in 1..Len(paragraphs) :
            LET f    == paragraphs[i]
                k    == FirstList(f.src)
                kids == Children(f.src)
                sub  == kids[k]
            IN  (f.type = "listitem" /\ k > 0) =>
                  /\ f.runs = wrapRuns(RunsOfFirst(f.src, k - 1),
                                       HalfPoints(opts.FontSize), opts)
                  /\ FragsBelow(sub) = (i + 1)..(i + Cardinality(FragsBelow(sub)))
                  /\ \A c \in 1..Len(nodes) :
                        (nodes[c].parent = sub /\ KindOf(c) = "ListItem") =>
                           \E j \in FragsBelow(sub) :
                              /\ paragraphs[j].src = c
                              /\ paragraphs[j].ind = f.ind + 360
                  /\ \A m \in (k + 1)..Len(kids) : FragsBelow(kids[m]) = {}
                  /\ FragsBelow(f.src) = i..(i + Cardinality(FragsBelow(sub)))

\* C16 witness: an item with text, a nested list with an item, and a child
\* after the nested list
C16_Witness ==
    /\ WalkDone
    /\ \E i \in 1..Len(paragraphs) :
          LET f == paragraphs[i]
          IN  /\ f.type = "listitem"
              /\ FirstList(f.src) = 2
              /\ Len(Children(f.src)) = 3
              /\ f.runs # <<>>
              /\ i < Len(paragraphs)
              /\ paragraphs[i + 1].type = "listitem"
              /\ paragraphs[i + 1].ind = f.ind + 360

\* the nesting level of list item id: the lists around it, but for its own
ListLevel(id) ==
    Cardinality({a \in Ancestors(id) \ {0} : KindOf(a) = "List"}) - 1

\* addList calls addListItem on item id: the item's list is a child of a node
\* processNode walks, or the first nested list of such an item
RECURSIVE ItemReached(_)
ItemReached(id) ==
    LET list  == nodes[id].parent
        above == nodes[list].parent
    IN  /\ KindOf(id) = "ListItem" /\ list # 0 /\ KindOf(list) = "List"
        /\ \/ ReachedByProcessNode(list)
           \/ /\ above # 0 /\ KindOf(above) = "ListItem"
              /\ FirstList(above) > 0 /\ Children(above)[FirstList(above)] = list
              /\ ItemReached(above)

\* the prefix of an item of an unordered list: a bullet (U+2022) and a blank
BulletPrefix == <<"U+2022", " ">>

\* C17: every list item addListItem is called on yields one own fragment: its
\* prefix is a bullet and a blank in an unordered list and "<n>. " in an
\* ordered one, its runs are the item's inline runs, and its indent is
\* 360 x (L + 1) at nesting level L
C17_ItemPrefixAndIndent ==
    WalkDone =>
        /\ \A id \in 1..Len(nodes) :
              ItemReached(id) =>
                 Cardinality({j \in 1..Len(paragraphs) :
                                 paragraphs[j].src = id}) = 1
        /\ \A j \in 1..Len(paragraphs) :
              LET f == paragraphs[j]
              IN  f.type = "listitem" =>
                    /\ f.t = IF nodes[nodes[f.src].parent].lvl = 1
                             THEN Digits(ItemOrdinal(f.src)) \o <<".", " ">>
                             ELSE BulletPrefix
                    /\ f.ind = 360 * (ListLevel(f.src) + 1)
                    /\ f.runs = wrapRuns(ItemRuns(f.src),
                                         HalfPoints(opts.FontSize), opts)

\* a is an initial part of b
IsPrefix(a, b) == Len(a) <= Len(b) /\ SubSeq(b, 1, Len(a)) = a

\* C18: c.paragraphs is empty when the walk begins; a step of the walk leaves
\* it as it is or appends to it; createDocx does not change it and reads it
\* once, for the body of the document part, the only part that holds it
C18_AppendOnly ==
    [][/\ (phase = "parse" /\ phase' = "walk") => paragraphs' = <<>>
       /\ phase = "walk" => IsPrefix(paragraphs, paragraphs')
       /\ (phase \in {"docx", "done"} /\ phase' \in {"docx", "done"})
             => paragraphs' = paragraphs
       /\ \A n \in 1..Len(zip') :
             /\ "body" \in DOMAIN zip'[n] <=> n = NumParts
             /\ n = NumParts => zip'[n].body = paragraphs]_vars

\* C18 witness: three or more fragments were appended and createDocx has read
\* them
C18_Witness ==
    /\ phase = "done" /\ err = <<>>
    /\ Len(paragraphs) >= 3
    /\ HasDocument /\ Document.body = paragraphs

RECURSIVE RunOffset(_, _)
\* how many runs the first k of the inline nodes ch yield
RunOffset(ch, k) ==
    IF k = 0 THEN 0
    ELSE RunOffset(ch, k - 1) + Len(processInlineNodes(<<ch[k]>>))

\* the runs numbered from RunOffset(ch, k - 1) + 1 to RunOffset(ch, k) of runs
RunsAt(runs, ch, k) ==
    SubSeq(runs, RunOffset(ch, k - 1) + 1, RunOffset(ch, k))

RECURSIVE InlineInOrder(_)
\* the runs of the inline nodes ch are the runs of ch[1], then those of
\* ch[2], ...; a node of a kind the switch does not name yields the runs of
\* its children, in this order again, and none if it has no children
InlineInOrder(ch) ==
    LET runs == processInlineNodes(ch)
    IN  /\ Len(runs) = RunOffset(ch, Len(ch))
        /\ \A k \in 1..Len(ch) :
              /\ RunsAt(runs, ch, k) = processInlineNodes(<<ch[k]>>)
              /\ ch[k].kind = "OtherInline" =>
                    IF ch[k].ch = <<>>
                    THEN processInlineNodes(<<ch[k]>>) = <<>>
                    ELSE /\ processInlineNodes(<<ch[k]>>) =
                               processInlineNodes(ch[k].ch)
                         /\ InlineInOrder(ch[k].ch)

\* Convert has reset c.paragraphs: the fragments are those of the tree in nodes
Converting == phase \in {"walk", "docx", "done"}

\* C19: the runs of a paragraph are in source order: the runs of an inline
\* child come after all runs of the children before it; the runs of a child
\* of a kind the switch does not name are those of its own children, in
\* their order, at the child's place; without children it yields no run
C19_RunsInSourceOrder ==
    \A i \in 1..Len(paragraphs) :
        LET f  == paragraphs[i]
            ch == nodes[f.src].inl
            sz == HalfPoints(opts.FontSize)
        IN  (Converting /\ f.type = "paragraph") =>
              /\ Len(f.runs) = RunOffset(ch, Len(ch))
              /\ \A k \in 1..Len(ch) :
                    RunsAt(f.runs, ch, k) =
                       wrapRuns(processInlineNodes(<<ch[k]>>), sz, opts)
              /\ InlineInOrder(ch)

\* C19 witness: the paragraph ~~<s>b </s>*a*~~a has the runs "b ", "a"
\* (italic), "a"
C19_Witness ==
    /\ WalkDone
    /\ grammar = "inline" /\ Len(nodes) = 1 /\ Len(paragraphs) = 1
    /\ nodes[1].inl = <<OtherInl(<<OtherInl(<<Inl_b>>), Inl_em>>), Inl_a>>
    /\ [k \in 1..Len(paragraphs[1].runs) |->
           <<paragraphs[1].runs[k].t, paragraphs[1].runs[k].i>>]
       = << <<<<"b", " ">>, FALSE>>, <<<<"a">>, TRUE>>, <<<<"a">>, FALSE>> >>

\* C20: an emphasis child of a paragraph yields one run: italic and not bold
\* at level 1, bold and not italic at level 2, whatever emphasis is nested in
\* it; no run that processInlineNodes returned (the runs of paragraphs and of
\* list items) is bold and italic
C20_EmphasisOneFlag ==
    \A i \in 1..Len(paragraphs) :
        LET f  == paragraphs[i]
            ch == nodes[f.src].inl
        IN  /\ f.type \in {"paragraph", "listitem"} =>
                  \A k \in 1..Len(f.runs) : ~(f.runs[k].b /\ f.runs[k].i)
            /\ (Converting /\ f.type = "paragraph") =>
                  \A k \in 1..Len(ch) :
                      ch[k].kind = "Emphasis" =>
                         LET r == RunsAt(f.runs, ch, k)
                         IN  /\ Len(r) = 1
                             /\ r[1].i = (ch[k].lvl = 1)
                             /\ r[1].b = (ch[k].lvl = 2)
                             /\ r[1].t = escapeXML(extractText(<<ch[k]>>))

\* C20 witness: ***a*** (level 1 inside level 2) has given one bold run "a"
C20_Witness ==
    /\ WalkDone
    /\ grammar = "inline" /\ Len(nodes) = 1 /\ Len(paragraphs) = 1
    /\ nodes[1].inl = <<Emphasis(2, <<Emphasis(1, <<Inl_a>>)>>)>>
    /\ Len(paragraphs[1].runs) = 1
    /\ paragraphs[1].runs[1].b /\ ~paragraphs[1].runs[1].i
    /\ paragraphs[1].runs[1].t = <<"a">>

\* the indexes of the fragments derived from node id itself
FragsOf(id) == {j \in 1..Len(paragraphs) : paragraphs[j].src = id}

\* C21: every heading processNode meets yields one fragment, bold, of the size
\* of its level brought into 1..6: a level below 1 has the size of level 1
\* (48), a level above 6 that of level 6 (22); the size is never 0 and is the
\* same whatever body font size is configured; the walk raises no error
C21_HeadingClamped ==
    WalkDone =>
        \A id \in 1..Len(nodes) :
            (KindOf(id) = "Heading" /\ ReachedByProcessNode(id)) =>
               /\ Cardinality(FragsOf(id)) = 1
               /\ \A j \in FragsOf(id) :
                     LET f   == paragraphs[j]
                         lvl == nodes[id].lvl
                     IN  /\ f.type = "heading" /\ f.b
                         /\ f.sz > 0
                         /\ lvl \in 1..6 => f.sz = headingSizes(lvl)
                         /\ lvl < 1 => f.sz = 48
                         /\ lvl > 6 => f.sz = 22
               /\ err = <<>> \/ err[1] = "failed to create document"

\* C21 witness: with a body font of 14 points, a level 0 and a level 7
\* heading have the sizes 48 and 22
C21_Witness ==
    /\ WalkDone /\ opts.FontSize = 14
    /\ Len(nodes) = 2 /\ nodes[1].lvl = 0 /\ nodes[2].lvl = 7
    /\ Len(paragraphs) = 2
    /\ paragraphs[1].sz = 48 /\ paragraphs[2].sz = 22

\* the length of s without the line breaks at its end
TrimmedLen(s) ==
    LET keep == {k \in 1..Len(s) : s[k] # "\n"}
    IN  IF keep = {} THEN 0 ELSE CHOOSE k \in keep : \A m \in keep : m <= k

\* the positions of the line breaks that separate the lines of s, with the
\* ends 0 and TrimmedLen(s) + 1
LineBreaks(s) ==
    {0, TrimmedLen(s) + 1} \cup {k \in 1..TrimmedLen(s) : s[k] = "\n"}

\* the n-th line of s, n >= 1: what lies between the n-th and the next of
\* LineBreaks(s)
LineOf(s, n) ==
    LET from == CHOOSE p \in LineBreaks(s) :
                   Cardinality({q \in LineBreaks(s) : q < p}) = n - 1
        to   == CHOOSE p \in LineBreaks(s) :
                   Cardinality({q \in LineBreaks(s) : q < p}) = n
    IN  SubSeq(s, from + 1, to - 1)

\* C22: a code block whose content without the line breaks at its end has n
\* lines (n >= 1, an empty content being one empty line) yields n code line
\* fragments in line order and then one spacer; an empty line is written as
\* one blank, so that no code line has an empty text
C22_CodeLines ==
    WalkDone =>
        \A id \in 1..Len(nodes) :
            (KindOf(id) \in {"FencedCodeBlock", "CodeBlock"}
               /\ ReachedByProcessNode(id)) =>
               LET s == nodes[id].txt
                   n == Cardinality(LineBreaks(s)) - 1
                   first == CHOOSE j \in FragsOf(id) : \A m \in FragsOf(id) : j <= m
               IN  /\ n >= 1
                   /\ Cardinality(FragsOf(id)) = n + 1
                   /\ FragsOf(id) = first..(first + n)
                   /\ \A k \in 1..n :
                         LET f == paragraphs[first + k - 1]
                         IN  /\ f.type = "code"
                             /\ f.t # <<>>
                             /\ f.t = IF LineOf(s, k) = <<>> THEN <<" ">>
                                      ELSE escapeXML(LineOf(s, k))
                   /\ paragraphs[first + n].type = "spacer"
                   /\ paragraphs[first + n].t = <<>>
                   /\ paragraphs[first + n].runs = <<>>

\* C22 witness: the content "a", empty line, "a" has given "a", " ", "a" and
\* the spacer
C22_Witness ==
    /\ WalkDone /\ grammar = "code" /\ Len(nodes) = 1
    /\ nodes[1].txt = <<"a", "\n", "\n">> \o <<"a">>
    /\ [j \in 1..Len(paragraphs) |-> paragraphs[j].t]
         = << <<"a">>, <<" ">>, <<"a">>, <<>> >>

\* the fragments derived from node id or from below it, in order
FragSeqBelow(id) ==
    SelectSeq(paragraphs, LAMBDA f : Below(f.src, id))

AllSpace(s) == \A k \in 1..Len(s) : IsSpace(s[k])

RECURSIVE Redirected(_, _)
\* the inline nodes ch with d as the destination of every link
Redirected(ch, d) ==
    [k \in 1..Len(ch) |->
        [ch[k] EXCEPT !.dest = IF ch[k].kind = "Link" THEN d ELSE @,
                      !.ch = Redirected(@, d)]]

\* the runs of the text blocks and paragraphs that addListItem reads for item
\* id, had every link the destination d
ItemRunsRedirected(id, d) ==
    LET own == ItemOwnChildren(id)
    IN  Concat([k \in 1..Len(own) |->
                  IF KindOf(own[k]) \in {"TextBlock", "Paragraph"}
                  THEN processInlineNodes(Redirected(nodes[own[k]].inl, d))
                  ELSE <<>>])

\* the names of what wrapRuns writes for a run
RunFields == {"b", "i", "color", "u", "hl", "font", "sz", "t"}

\* C25: at the end of the walk the fragments are those of the document in which every link has the
\* empty destination, so that two documents that differ in the destinations
\* of their links only have the same fragments: a run holds text, flags,
\* color, font and size and nothing of the destination; the body written is
\* this fragment sequence, every part is that of the options and the fragment
\* sequence, and the relationships of the package are the two fixed ones, none
\* for a link
C25_LinkDestinationDropped ==
    /\ WalkDone =>
          \A i \in 1..Len(paragraphs) :
              LET f  == paragraphs[i]
                  sz == HalfPoints(opts.FontSize)
              IN  /\ \A k \in 1..Len(f.runs) : DOMAIN f.runs[k] = RunFields
                  /\ f.type = "paragraph" =>
                        f.runs = wrapRuns(processInlineNodes(
                                    Redirected(nodes[f.src].inl, <<>>)),
                                    sz, opts)
                  /\ f.type = "blockquote" =>
                        LET r == processInlineNodes(
                                    Redirected(nodes[f.src].inl, <<>>))
                        IN  f.runs = wrapRuns(
                                [k \in 1..Len(r) |-> QuoteRun(r[k])],
                                sz, opts)
                  /\ f.type = "listitem" =>
                        f.runs = wrapRuns(ItemRunsRedirected(f.src, <<>>),
                                          sz, opts)
    /\ HasDocument => Document.body = paragraphs
    /\ \A n \in 1..Len(zip) :
          /\ zip[n] = Part(n, opts, paragraphs)
          /\ "targets" \in DOMAIN zip[n] =>
                zip[n].targets = IF zip[n].name = RelsName
                                 THEN {RelsTarget} ELSE {DocRelsTarget}

\* C25 witness: two paragraphs, links with the same label to different
\* destinations, have been written with the same runs
C25_Witness ==
    /\ grammar = "inline" /\ HasDocument
    /\ Len(nodes) = 1 /\ Len(paragraphs) = 1
    /\ nodes[1].inl = <<Link(Str_url, <<Inl_em>>), Link(Str_url2, <<Inl_em>>)>>
    /\ Len(Document.body[1].runs) = 2
    /\ Document.body[1].runs[1] = Document.body[1].runs[2]
    /\ Document.body[1].runs[1].u

====
